---- MODULE Spec2Model ----
(***************************************************************************)
(* Model of projects/marketplace/products-api/src/server.ts: the gateway   *)
(* process that enrolls users at a Fabric CA (the Registrar Service),      *)
(* keeps their enrollment results in the in-memory object `users`, binds   *)
(* each request to a contract handle in the session resolver middleware    *)
(* and proxies evaluate / submit calls to the ledger.                      *)
(*                                                                         *)
(* Every `await` of the source is a point where other requests may run:    *)
(* a handler is cut into one action per stretch of code between awaits.    *)
(* The external services (CA, ledger) answer nondeterministically where    *)
(* the source cannot know the answer (transport failure, deadline).        *)
(***************************************************************************)
EXTENDS Integers, Sequences, FiniteSets, TLC

(* ------------------------------ bounds -------------------------------- *)

\* number of requests that can be in flight at the same time
MaxReq == 2
\* number of successful enroll calls the CA serves in one run
MaxEnroll == 2
\* the latest clock reading, in ms, at which a ledger operation is started
MaxClock == 2

(* ------------------------------ inputs -------------------------------- *)

Slots == 1..MaxReq
\* usernames sent in the body of /signup and /login
Users == {"alice", "bob"}
\* the request carries no x-user header
NoHeader == "none"
\* a name every JavaScript object inherits from Object.prototype
ProtoKey == "constructor"
\* the values of the x-user header
Headers == Users \cup {NoHeader, ProtoKey}
\* the x-user header sent to /init, /signup and /login: these routes are
\* registered before the resolver and nothing on their path reads the header
DirectHeaders == {NoHeader}
\* the username of the identity configured for the default session
AdminName == "admin"

(* --------------------------- key material ------------------------------ *)

\* the certificate or the key of enrollment number `serial` made for `user`
Material(user, serial) == [user |-> user, serial |-> serial]
\* JavaScript's undefined, read where a property does not exist
Undefined == Material("undefined", 0)
\* cert.pem / key.pem of the configured admin user
AdminCert == Material(AdminName, 0)
AdminKey == Material(AdminName, 0)
\* what fabricCAServices.enroll resolves to
EnrollResult(user, serial) ==
    [certificate |-> Material(user, serial), key |-> Material(user, serial)]

(* ------------------------- newConnectOptions -------------------------- *)

\* the values Date.now() can have when an operation is started
Times == 0..MaxClock
\* the deadlines of the gRPC calls, in ms
EvaluateMs == 5000
EndorseMs == 15000
SubmitMs == 5000
CommitStatusMs == 60000

\* a faulty option: Date.now() is read once, when the options are built
DeadlineOptionEager(ms) == [now \in Times |-> ms]

\* () => { return { deadline: Date.now() + ms } }: the callback is called
\* when the operation is started and maps the clock to the deadline
DeadlineOption(ms) == [now \in Times |-> now + ms]

\* the object newConnectOptions resolves to (the client is the one shared
\* grpcConn; the mspId is config.mspID for every caller)
NewConnectOptions(credentials, privateKeyPem) ==
    [identity |-> credentials,
     signer |-> privateKeyPem,
     evaluateOptions |-> DeadlineOption(EvaluateMs),
     endorseOptions |-> DeadlineOption(EndorseMs),
     submitOptions |-> DeadlineOption(SubmitMs),
     commitStatusOptions |-> DeadlineOption(CommitStatusMs)]

\* connect(options).getNetwork(channelName).getContract(chaincodeName)
Connect(options, isDefault) ==
    [identity |-> options.identity, signer |-> options.signer,
     isDefault |-> isDefault,
     deadlines |-> [evaluate |-> options.evaluateOptions,
                    endorse |-> options.endorseOptions,
                    submit |-> options.submitOptions,
                    commitStatus |-> options.commitStatusOptions]]

\* the option callback of no contract
NoOption == [now \in Times |-> 0]
\* no contract attached to the request
NoContract ==
    [identity |-> Undefined, signer |-> Undefined, isDefault |-> FALSE,
     deadlines |-> [evaluate |-> NoOption, endorse |-> NoOption,
                    submit |-> NoOption, commitStatus |-> NoOption]]

VARIABLES
    mainPc,      \* position of main(): "enroll", "connect", "initialize", "listen", "aborted"
    startup,     \* the steps main() has completed, in order
    alive,       \* the process has not been ended by an unhandled rejection
    ca,          \* Registrar Service: the enrollment ids it has registered
    serial,      \* Registrar Service: number of certificates issued to users
    users,       \* const users = {}: own properties, username -> enroll result
    reqs,        \* the requests in flight, one record per slot; beside the
                 \* request's own fields a record notes what the request met:
                 \* trace (the external calls awaited), registered (the CA
                 \* knew the username at the lookup), entry (users had the
                 \* x-user entry at resolution), afterLogin (a /login of the
                 \* x-user had answered 200 before), overlap (a /login of
                 \* another user was in flight meanwhile), failure (the
                 \* call that failed)
    loginOK      \* usernames for which a /login has responded 200 "OK"

vars == <<mainPc, startup, alive, ca, serial, users, reqs, loginOK>>

\* a body field the endpoint does not read
NoField == "-"

(* ------------------------------ requests ------------------------------- *)

\* a slot that holds no request
IdleReq ==
    [kind |-> "idle", username |-> NoField, xuser |-> NoHeader,
     pc |-> "idle", cert |-> Undefined, key |-> Undefined, result |-> EnrollResult("undefined", 0),
     contract |-> NoContract, via |-> NoContract, status |-> 0, body |-> "",
     trace |-> <<>>, registered |-> "?", entry |-> "?", afterLogin |-> FALSE,
     overlap |-> FALSE, failure |-> "none", later |-> FALSE, issued |-> 0]

\* what is kept of a request once it has ended: the endpoint, the response,
\* the calls it made and what they met; its inputs and handles are dropped
Ended(r, pc) ==
    [IdleReq EXCEPT !.kind = r.kind, !.pc = pc, !.trace = r.trace,
                    !.registered = r.registered, !.entry = r.entry,
                    !.afterLogin = r.afterLogin, !.overlap = r.overlap,
                    !.failure = r.failure, !.later = r.later,
                    !.issued = r.issued]

\* the request in the slot has started and has not ended
InFlight(r) == r.pc \notin {"idle", "done", "hung"}
\* the slot can take a new request: it is empty, or its request has ended
Free(i) == reqs[i].pc \in {"idle", "done", "hung"}
\* the server accepts requests: main() has reached app.listen and the process lives
Listening == mainPc = "listen" /\ alive

\* a request as it enters its first handler
NewReq(kind, username, xuser) ==
    [IdleReq EXCEPT !.kind = kind, !.username = username, !.xuser = xuser]
\* res.status(status); res.send(body)
Respond(r, status, body) == [Ended(r, "done") EXCEPT !.status = status, !.body = body]
\* the handler awaits the external call `call`
Await(r, call) == [r EXCEPT !.pc = call, !.trace = Append(@, call)]

(* -------------------------- the object `users` ------------------------- *)

\* users has an own property `name`
HasOwn(name) == name \in DOMAIN users
\* users[name] is truthy: an own property, or one inherited from Object.prototype
UsersTruthy(name) == HasOwn(name) \/ name = ProtoKey
\* users[name].certificate
CertificateOf(name) == IF HasOwn(name) THEN users[name].certificate ELSE Undefined
\* users[name].key
KeyOf(name) == IF HasOwn(name) THEN users[name].key ELSE Undefined
\* a faulty store: users = { [username]: r } drops the other entries
UsersSetReplace(username, r) == [n \in {username} |-> r]

\* a faulty store: users[username] ||= r keeps the entry of the first /login
UsersSetOnce(username, r) ==
    IF username \in DOMAIN users
        THEN users
        ELSE [n \in DOMAIN users \cup {username} |-> IF n = username THEN r ELSE users[n]]

\* users[username] = r
UsersSet(username, r) ==
    [n \in DOMAIN users \cup {username} |-> IF n = username THEN r ELSE users[n]]

(* ------------------------------- startup ------------------------------- *)

\* the contract built from the configured admin certificate and key
DefaultContract == Connect(NewConnectOptions(AdminCert, AdminKey), TRUE)

\* fabricCAServices.enroll of the registrar: a failure rejects main()
MainEnroll ==
    /\ mainPc = "enroll"
    /\ \E ok \in BOOLEAN :
          /\ mainPc' = IF ok THEN "connect" ELSE "aborted"
          /\ startup' = IF ok THEN Append(startup, "enroll") ELSE startup
    /\ UNCHANGED <<alive, ca, serial, users, reqs, loginOK>>

\* newGrpcConnection, newConnectOptions, connect, getNetwork, getContract:
\* a malformed configured key makes newSigner throw and rejects main()
MainConnect ==
    /\ mainPc = "connect"
    /\ \E ok \in BOOLEAN :
          /\ mainPc' = IF ok THEN "initialize" ELSE "aborted"
          /\ startup' = IF ok THEN Append(startup, "connect") ELSE startup
    /\ UNCHANGED <<alive, ca, serial, users, reqs, loginOK>>

\* a faulty startup: no try/catch around the Initialize submit, a failure
\* rejects main() before app.listen
MainInitializeFatal ==
    /\ mainPc = "initialize"
    /\ \E ok \in BOOLEAN :
          /\ mainPc' = IF ok THEN "listen" ELSE "aborted"
          /\ startup' = IF ok THEN Append(startup, "Initialize") ELSE startup
    /\ UNCHANGED <<alive, ca, serial, users, reqs, loginOK>>

\* the startup Initialize submit inside try/catch, then the routes and app.listen
MainInitialize ==
    /\ mainPc = "initialize"
    /\ \E ok \in BOOLEAN :
          /\ mainPc' = "listen"
          /\ startup' = Append(startup, "Initialize")
    /\ UNCHANGED <<alive, ca, serial, users, reqs, loginOK>>

(* ----------------------- unhandled handler failure --------------------- *)

\* An async handler rejects with no try/catch around the await.  What happens
\* next depends on the Express and Node versions of the build: Express 4
\* ignores the rejected promise and the request is never answered, Node may
\* end the process on the unhandled rejection, Express 5 forwards the error
\* to the default error handler, which answers 500.
Unhandled(i, r) ==
    \/ /\ reqs' = [reqs EXCEPT ![i] = Ended(r, "hung")]
       /\ alive' \in {TRUE, FALSE}
    \/ /\ reqs' = [reqs EXCEPT ![i] = Respond(r, 500, "Internal Server Error")]
       /\ alive' = alive

(* ------------------------- the Registrar Service ----------------------- *)

\* identityService.getOne(username, registrar): resolves when the CA knows the
\* identity, rejects when it does not, and rejects on any other failure
LookupOutcomes(username) ==
    (IF username \in ca THEN {"found"} ELSE {"notfound"}) \cup {"error"}

\* fabricCAServices.register: the CA rejects an id it already knows
RegisterOutcomes(username) ==
    (IF username \notin ca THEN {"ok"} ELSE {"rejected"}) \cup {"error"}

\* fabricCAServices.enroll: the CA issues a certificate when the id is
\* registered and the secret is the registered one, and rejects anything else.
\* The handler passes the password of the body through unread, so whether it
\* is the registered secret is drawn here, where the CA decides.
EnrollOutcomes(username) ==
    (IF username \in ca /\ serial < MaxEnroll THEN {"ok"} ELSE {})
        \cup {"rejected", "error"}

(* ------------------------------ POST /signup --------------------------- *)

\* the /signup handler starts: it awaits identityService.getOne
SignupStart(u, h) == Await(NewReq("signup", u, h), "getOne")

\* a request with an x-user header of `hs` reaches the handler
ArriveSignupFrom(i, hs) ==
    /\ Listening /\ Free(i)
    /\ \E u \in Users, h \in hs :
          reqs' = [reqs EXCEPT ![i] = SignupStart(u, h)]
    /\ UNCHANGED <<mainPc, startup, alive, ca, serial, users, loginOK>>

\* the request reaches the handler
ArriveSignup(i) == ArriveSignupFrom(i, DirectHeaders)

\* try { identityFound = await getOne } catch { log }; if (identityFound) 400
SignupAfterLookup(r, outcome) ==
    IF outcome = "found"
        THEN Respond(r, 400, "Username already taken")
        ELSE Await(r, "register")

\* getOne settles for a /signup
SignupLookup(i) ==
    /\ Listening /\ reqs[i].kind = "signup" /\ reqs[i].pc = "getOne"
    /\ \E outcome \in LookupOutcomes(reqs[i].username) :
          LET r == [reqs[i] EXCEPT
                      !.registered = IF reqs[i].username \in ca
                                        THEN "yes" ELSE "no",
                      !.failure = IF outcome = "error" THEN "getOne" ELSE @]
          IN  reqs' = [reqs EXCEPT ![i] = SignupAfterLookup(r, outcome)]
    /\ UNCHANGED <<mainPc, startup, alive, ca, serial, users, loginOK>>

\* a faulty /signup: try { await register } catch { log }; res.send("OK")
SignupRegisterSwallow(i) ==
    /\ Listening /\ reqs[i].kind = "signup" /\ reqs[i].pc = "register"
    /\ \E outcome \in RegisterOutcomes(reqs[i].username) :
          /\ ca' = IF outcome = "ok" THEN ca \cup {reqs[i].username} ELSE ca
          /\ reqs' = [reqs EXCEPT ![i] = Respond(reqs[i], 200, "OK")]
          /\ alive' = alive
    /\ UNCHANGED <<mainPc, startup, serial, users, loginOK>>

\* const r = await fabricCAServices.register(...); res.send("OK")
SignupRegister(i) ==
    /\ Listening /\ reqs[i].kind = "signup" /\ reqs[i].pc = "register"
    /\ \E outcome \in RegisterOutcomes(reqs[i].username) :
          IF outcome = "ok"
             THEN /\ ca' = ca \cup {reqs[i].username}
                  /\ reqs' = [reqs EXCEPT ![i] = Respond(reqs[i], 200, "OK")]
                  /\ alive' = alive
             ELSE /\ ca' = ca
                  /\ Unhandled(i, [reqs[i] EXCEPT !.failure = "register"])
    /\ UNCHANGED <<mainPc, startup, serial, users, loginOK>>

(* ------------------------------ POST /login ---------------------------- *)

\* the /login handler starts: it awaits identityService.getOne
LoginStart(u, h) == Await(NewReq("login", u, h), "getOne")

\* a request with an x-user header of `hs` reaches the handler
ArriveLoginFrom(i, hs) ==
    /\ Listening /\ Free(i)
    /\ \E u \in Users, h \in hs :
          LET others == {j \in Slots \ {i} : /\ reqs[j].kind = "login"
                                               /\ InFlight(reqs[j])
                                               /\ reqs[j].username # u}
              same == {j \in Slots \ {i} : /\ reqs[j].kind = "login"
                                             /\ InFlight(reqs[j])
                                             /\ reqs[j].username = u}
          IN  reqs' = [j \in Slots |->
                         IF j = i
                            THEN [LoginStart(u, h)
                                    EXCEPT !.overlap = others # {},
                                           !.later = same # {}]
                            ELSE IF j \in others
                                    THEN [reqs[j] EXCEPT !.overlap = TRUE]
                                    ELSE reqs[j]]
    /\ UNCHANGED <<mainPc, startup, alive, ca, serial, users, loginOK>>

\* the request reaches the handler
ArriveLogin(i) == ArriveLoginFrom(i, DirectHeaders)

\* a faulty /login: the catch only logs, as the one of /signup does
LoginAfterLookupSwallow(r, outcome) ==
    IF outcome = "notfound"
        THEN Respond(r, 400, "Username not found")
        ELSE Await(r, "enroll")

\* try { identityFound = await getOne } catch { 400 "Username not found" }
LoginAfterLookup(r, outcome) ==
    IF outcome = "found"
        THEN Await(r, "enroll")
        ELSE Respond(r, 400, "Username not found")

\* getOne settles for a /login
LoginLookup(i) ==
    /\ Listening /\ reqs[i].kind = "login" /\ reqs[i].pc = "getOne"
    /\ \E outcome \in LookupOutcomes(reqs[i].username) :
          LET r == [reqs[i] EXCEPT
                      !.registered = IF reqs[i].username \in ca
                                        THEN "yes" ELSE "no",
                      !.failure = IF outcome = "error" THEN "getOne" ELSE @]
          IN  reqs' = [reqs EXCEPT ![i] = LoginAfterLookup(r, outcome)]
    /\ UNCHANGED <<mainPc, startup, alive, ca, serial, users, loginOK>>

\* the CA serves the enroll call: the response is on its way to the handler
LoginEnroll(i) ==
    /\ Listening /\ reqs[i].kind = "login" /\ reqs[i].pc = "enroll"
    /\ \E outcome \in EnrollOutcomes(reqs[i].username) :
          IF outcome = "ok"
             THEN /\ serial' = serial + 1
                  /\ reqs' = [reqs EXCEPT ![i] =
                         [reqs[i] EXCEPT !.pc = "enrolled",
                            !.result = EnrollResult(reqs[i].username, serial + 1),
                            !.issued = serial + 1]]
                  /\ alive' = alive
             ELSE /\ serial' = serial
                  /\ Unhandled(i, [reqs[i] EXCEPT !.failure = "enroll"])
    /\ UNCHANGED <<mainPc, startup, ca, users, loginOK>>

\* a faulty /login: the username lives in a variable shared by all requests,
\* so after the await it names the user of the latest /login in flight
LoginKeyShared(r) ==
    LET others == {j \in Slots : /\ reqs[j].kind = "login" /\ InFlight(reqs[j])
                                 /\ reqs[j].username # r.username}
    IN  IF others = {} THEN r.username ELSE reqs[CHOOSE j \in others : TRUE].username

\* the key under which /login stores the enroll result
LoginKey(r) == r.username

\* users[username] = r; res.send("OK")
LoginStore(i) ==
    /\ Listening /\ reqs[i].kind = "login" /\ reqs[i].pc = "enrolled"
    /\ users' = UsersSet(LoginKey(reqs[i]), reqs[i].result)
    /\ reqs' = [reqs EXCEPT ![i] = Respond(reqs[i], 200, "OK")]
    /\ loginOK' = loginOK \cup {reqs[i].username}
    /\ UNCHANGED <<mainPc, startup, alive, ca, serial>>

(* --------------------------- the Ledger Network ------------------------ *)

\* the endpoints behind the session resolver
Proxied == {"ping", "evaluate", "submit"}

\* a ledger call succeeds, or fails: the chaincode refuses it (Initialize on
\* an initialized ledger), a peer is down, the deadline of the phase passes
PhaseOutcomes == BOOLEAN

\* a faulty /init: the failure of the submit is answered like /submit's
InitFinishSurfaced(r, ok) ==
    IF ok THEN Respond(r, 200, "Initialized")
          ELSE Respond([r EXCEPT !.failure = "ledger"], 400, "error")

\* /init: try { await submitTransaction("Initialize") } catch { log };
\* res.send("Initialized")
InitFinish(r, ok) ==
    Respond([r EXCEPT !.failure = IF ok THEN @ ELSE "ledger"], 200, "Initialized")

\* the ledger invocations a request has issued
Invocations(trace) ==
    Cardinality({n \in 1..Len(trace) : trace[n] \in {"evaluate", "endorse"}})

\* a faulty proxy: a failed invocation is issued once more before it is reported
ProxyFinishRetry(r, ok) ==
    IF ok THEN Respond(r, 200, "payload")
    ELSE IF Invocations(r.trace) < 2
            THEN Await(r, IF r.kind = "submit" THEN "endorse" ELSE "evaluate")
            ELSE Respond([r EXCEPT !.failure = "ledger"], 400, "error")

\* /ping, /evaluate, /submit: try { res.send(response) }
\* catch (e) { res.status(400); res.send(e.details or e.message) }
ProxyFinish(r, ok) ==
    IF ok THEN Respond(r, 200, "payload")
          ELSE Respond([r EXCEPT !.failure = "ledger"], 400, "error")

\* the handler's await of the ledger call settles
Finish(r, ok) == IF r.kind = "init" THEN InitFinish(r, ok) ELSE ProxyFinish(r, ok)

\* a faulty submit: the endorsed transaction is not sent to the orderer
NextPhaseSkip(phase) == "commit"

\* the phase that follows `phase` in contract.submitTransaction
NextPhase(phase) == IF phase = "endorse" THEN "order" ELSE "commit"

\* one phase of contract.submitTransaction settles: endorse (endorseOptions),
\* order (submitOptions); a failed phase rejects the call at once
SubmitPhase(i) ==
    /\ Listening /\ reqs[i].pc \in {"endorse", "order"}
    /\ \E ok \in PhaseOutcomes :
          reqs' = [reqs EXCEPT ![i] =
                     IF ok THEN Await(reqs[i], NextPhase(reqs[i].pc))
                           ELSE Finish(reqs[i], FALSE)]
    /\ UNCHANGED <<mainPc, startup, alive, ca, serial, users, loginOK>>

\* the commit status of a submit arrives (commitStatusOptions), or fails
SubmitCommit(i) ==
    /\ Listening /\ reqs[i].pc = "commit"
    /\ \E ok \in PhaseOutcomes :
          reqs' = [reqs EXCEPT ![i] = Finish(reqs[i], ok)]
    /\ UNCHANGED <<mainPc, startup, alive, ca, serial, users, loginOK>>

\* contract.evaluateTransaction settles (evaluateOptions)
EvaluateSettle(i) ==
    /\ Listening /\ reqs[i].pc = "evaluate"
    /\ \E ok \in PhaseOutcomes : reqs' = [reqs EXCEPT ![i] = Finish(reqs[i], ok)]
    /\ UNCHANGED <<mainPc, startup, alive, ca, serial, users, loginOK>>

(* ------------------------------- POST /init ---------------------------- *)

\* a faulty /init: the route is registered behind the session resolver and
\* submits on req.contract, the session of the x-user header
InitStartResolved(h) ==
    Await([NewReq("init", NoField, h)
              EXCEPT !.via = IF h # NoHeader /\ HasOwn(h)
                                  THEN Connect(NewConnectOptions(CertificateOf(h),
                                                                 KeyOf(h)), FALSE)
                                  ELSE DefaultContract],
          "endorse")

\* the /init handler starts: it submits Initialize on the default contract
\* of the closure
InitStart(h) ==
    Await([NewReq("init", NoField, h) EXCEPT !.via = DefaultContract], "endorse")

\* a request with an x-user header of `hs` reaches the handler
ArriveInitFrom(i, hs) ==
    /\ Listening /\ Free(i)
    /\ \E h \in hs : reqs' = [reqs EXCEPT ![i] = InitStart(h)]
    /\ UNCHANGED <<mainPc, startup, alive, ca, serial, users, loginOK>>

\* the request reaches the handler
ArriveInit(i) == ArriveInitFrom(i, DirectHeaders)

(* --------------------------- session resolver -------------------------- *)

\* the handler behind the resolver starts: /ping and /evaluate call
\* req.contract.evaluateTransaction, /submit calls req.contract.submitTransaction
HandlerStart(r) ==
    Await([r EXCEPT !.via = r.contract],
          IF r.kind = "submit" THEN "endorse" ELSE "evaluate")

\* if (user && users[user])
ResolverFinds(user) == user # NoHeader /\ UsersTruthy(user)

\* Buffer.from(undefined) and undefined.toBytes() throw a TypeError
ArgsThrow(cert, key) == cert = Undefined \/ key = Undefined

\* the middleware up to its first await: req.contract = contract, then either
\* next(), or the arguments of newConnectOptions are read from users[user],
\* or reading them throws and the catch calls next(e): Express answers 500
ResolverSync(r) ==
    LET r1 == [r EXCEPT !.contract = DefaultContract,
                        !.entry = IF HasOwn(r.xuser) THEN "yes" ELSE "no",
                        !.afterLogin = r.xuser \in loginOK]
        cert == CertificateOf(r.xuser)
        key == KeyOf(r.xuser)
    IN  IF ~ResolverFinds(r.xuser) THEN HandlerStart(r1)
        ELSE IF ArgsThrow(cert, key)
                THEN Respond([r1 EXCEPT !.failure = "session"], 500,
                             "Internal Server Error")
                ELSE [r1 EXCEPT !.pc = "build", !.cert = cert, !.key = key]

\* a request for /ping, /evaluate or /submit reaches the middleware
ArriveProxied(i) ==
    /\ Listening /\ Free(i)
    /\ \E kind \in Proxied, h \in Headers :
          reqs' = [reqs EXCEPT ![i] = ResolverSync(NewReq(kind, NoField, h))]
    /\ UNCHANGED <<mainPc, startup, alive, ca, serial, users, loginOK>>

\* a faulty resolver: the contract built for the user is not attached, the
\* request keeps the default one
BuiltContractShadowed(r) == DefaultContract

\* a faulty resolver: the key is read from users[user] after the await
BuiltContractRereads(r) ==
    Connect(NewConnectOptions(r.cert, KeyOf(r.xuser)), FALSE)

\* connect(await newConnectOptions(grpcConn, mspID, certificate, key))
\*   .getNetwork(channelName).getContract(chaincodeName)
BuiltContract(r) == Connect(NewConnectOptions(r.cert, r.key), FALSE)

\* newConnectOptions resolves: req.contract = contract; next()
ResolverBuilt(i) ==
    /\ Listening /\ reqs[i].pc = "build"
    /\ reqs' = [reqs EXCEPT ![i] =
                   HandlerStart([reqs[i] EXCEPT !.contract = BuiltContract(reqs[i])])]
    /\ UNCHANGED <<mainPc, startup, alive, ca, serial, users, loginOK>>

(* ---------------------------- specification ---------------------------- *)

Init ==
    /\ mainPc = "enroll"
    /\ startup = <<>>
    /\ alive = TRUE
    /\ ca = {}
    /\ serial = 0
    /\ users = [n \in {} |-> EnrollResult("undefined", 0)]
    /\ reqs = [i \in Slots |-> IdleReq]
    /\ loginOK = {}

Next ==
    \/ MainEnroll
    \/ MainConnect
    \/ MainInitialize
    \/ \E i \in Slots : ArriveInit(i)
    \/ \E i \in Slots : ArriveSignup(i)
    \/ \E i \in Slots : ArriveLogin(i)
    \/ \E i \in Slots : ArriveProxied(i)
    \/ \E i \in Slots : SignupLookup(i)
    \/ \E i \in Slots : SignupRegister(i)
    \/ \E i \in Slots : LoginLookup(i)
    \/ \E i \in Slots : LoginEnroll(i)
    \/ \E i \in Slots : LoginStore(i)
    \/ \E i \in Slots : ResolverBuilt(i)
    \/ \E i \in Slots : EvaluateSettle(i)
    \/ \E i \in Slots : SubmitPhase(i)
    \/ \E i \in Slots : SubmitCommit(i)

Spec == Init /\ [][Next]_vars

\* the x-user headers of the /init, /signup and /login requests below: none,
\* or the name of a user, who may be the one of the body or another, logged
\* in or not
SentHeaders == {NoHeader, "alice"}

\* /init, /signup and /login requests that carry an x-user header
ArriveInitAny(i) == ArriveInitFrom(i, SentHeaders)
ArriveSignupAny(i) == ArriveSignupFrom(i, SentHeaders)
ArriveLoginAny(i) == ArriveLoginFrom(i, SentHeaders)

\* the server under /init, /signup and /login requests with an x-user header
NextHeaders ==
    \/ MainEnroll
    \/ MainConnect
    \/ MainInitialize
    \/ \E i \in Slots : ArriveInitAny(i)
    \/ \E i \in Slots : ArriveSignupAny(i)
    \/ \E i \in Slots : ArriveLoginAny(i)
    \/ \E i \in Slots : SignupLookup(i)
    \/ \E i \in Slots : SignupRegister(i)
    \/ \E i \in Slots : LoginLookup(i)
    \/ \E i \in Slots : LoginEnroll(i)
    \/ \E i \in Slots : LoginStore(i)
    \/ \E i \in Slots : SubmitPhase(i)
    \/ \E i \in Slots : SubmitCommit(i)

SpecHeaders == Init /\ [][NextHeaders]_vars

(* -------------------------------- claims ------------------------------- *)

\* the handler behind the resolver is running on req.contract
Executing(r) ==
    r.kind \in Proxied /\ r.pc \in {"evaluate", "endorse", "order", "commit"}

\* C1: a request with no x-user header, or with an x-user for which users
\* holds no entry, gets the default contract and the resolver never fails.
C1_UnknownResolvesToDefault ==
    \A i \in Slots :
        (reqs[i].kind \in Proxied /\ reqs[i].entry = "no")
            => /\ reqs[i].failure # "session"
               /\ reqs[i].status # 500
               /\ InFlight(reqs[i]) => reqs[i].contract = DefaultContract

\* C2: once a /login of U has answered 200 "OK", a later /ping, /evaluate
\* or /submit with x-user U runs on a contract that is not the default one
\* and whose signer is a key the CA issued to U; the resolver does not fail.
C2_LoggedInUserGetsOwnSigner ==
    \A i \in Slots :
        /\ (reqs[i].kind \in Proxied /\ reqs[i].afterLogin)
              => reqs[i].failure # "session" /\ reqs[i].status # 500
        /\ (Executing(reqs[i]) /\ reqs[i].afterLogin)
              => /\ ~reqs[i].via.isDefault
                 /\ reqs[i].via # DefaultContract
                 /\ reqs[i].via.signer.user = reqs[i].xuser
                 /\ reqs[i].via.signer.serial \in 1..serial

\* C2 witness: a request of a logged-in user is running on that user's signer
C2_Witness ==
    \E i \in Slots :
        /\ Executing(reqs[i]) /\ reqs[i].afterLogin
        /\ reqs[i].xuser \in Users
        /\ reqs[i].via.signer.user = reqs[i].xuser

\* the contract is built from one enrollment result
OneEnrollment(c) == c.identity = c.signer

\* C3: the certificate and the signer key of every contract attached to a
\* request, or used for its ledger call, come from one enrollment result.
C3_SignerMatchesIdentity ==
    \A i \in Slots :
        /\ reqs[i].contract # NoContract => OneEnrollment(reqs[i].contract)
        /\ reqs[i].via # NoContract => OneEnrollment(reqs[i].via)

\* C3 witness: a request runs on the contract of an enrollment that a
\* concurrent /login of the same user has meanwhile replaced in users
C3_Witness ==
    \E i \in Slots :
        /\ Executing(reqs[i]) /\ ~reqs[i].via.isDefault
        /\ OneEnrollment(reqs[i].via)
        /\ HasOwn(reqs[i].xuser)
        /\ KeyOf(reqs[i].xuser) # reqs[i].via.signer

\* the contract the resolver builds for x-user `user` from the present users
SessionFor(user) ==
    BuiltContract(ResolverSync(NewReq("evaluate", NoField, user)))

\* C4: the sessions resolved for two different logged-in users carry
\* different signers, each the key enrolled for its own username; so do the
\* contracts of two requests in flight.
C4_DistinctUsersDistinctSigners ==
    /\ \A u1 \in loginOK, u2 \in loginOK :
          /\ SessionFor(u1).signer.user = u1
          /\ u1 # u2 => SessionFor(u1).signer # SessionFor(u2).signer
    /\ \A i \in Slots, j \in Slots :
          (/\ Executing(reqs[i]) /\ reqs[i].afterLogin
           /\ Executing(reqs[j]) /\ reqs[j].afterLogin
           /\ reqs[i].xuser # reqs[j].xuser)
              => reqs[i].via.signer # reqs[j].via.signer

\* C4 witness: two /login requests of different users were in flight together
\* and both have answered 200 "OK", each user holding its own enrollment
C4_Witness ==
    \E i \in Slots, j \in Slots :
        /\ i # j
        /\ reqs[i].kind = "login" /\ reqs[i].status = 200 /\ reqs[i].overlap
        /\ reqs[j].kind = "login" /\ reqs[j].status = 200 /\ reqs[j].overlap
        /\ loginOK = Users
        /\ SessionFor("alice").signer = Material("alice", 2)
        /\ SessionFor("bob").signer = Material("bob", 1)

\* the request has ended, answered or not
Over(r) == r.pc \in {"done", "hung"}

\* C5: a /signup whose username the CA already knew at the lookup is
\* answered 400 "Username already taken", whatever the lookup call returned.
C5_TakenUsernameAnswered400 ==
    \A i \in Slots :
        (reqs[i].kind = "signup" /\ reqs[i].registered = "yes" /\ Over(reqs[i]))
            => /\ reqs[i].status = 400
               /\ reqs[i].body = "Username already taken"

\* C6: a /login whose username the CA does not know is answered
\* 400 "Username not found" and issues no enroll call.
C6_UnknownLoginAnswered400 ==
    \A i \in Slots :
        (reqs[i].kind = "login" /\ reqs[i].registered = "no")
            => /\ reqs[i].pc = "done"
               /\ reqs[i].status = 400
               /\ reqs[i].body = "Username not found"
               /\ \A n \in 1..Len(reqs[i].trace) : reqs[i].trace[n] # "enroll"
               /\ reqs[i].trace = <<"getOne">>

\* C6 witness: a /login of an unregistered username has been answered, once
\* after the CA said not found and once after the lookup itself failed
C6_Witness ==
    \E i \in Slots, j \in Slots :
        /\ reqs[i].kind = "login" /\ reqs[i].registered = "no"
        /\ reqs[i].pc = "done" /\ reqs[i].failure = "none"
        /\ reqs[j].kind = "login" /\ reqs[j].registered = "no"
        /\ reqs[j].pc = "done" /\ reqs[j].failure = "getOne"

\* C7: a request whose register or enroll call failed, or whose session
\* construction in the resolver failed, is answered 400; none is left
\* without a response and the process goes on serving.
C7_FailuresAnswered400 ==
    /\ alive
    /\ \A i \in Slots :
          reqs[i].failure \in {"register", "enroll", "session"}
              => reqs[i].pc = "done" /\ reqs[i].status = 400

\* C8: every /init is answered 200 "Initialized", whether its Initialize
\* submit succeeds or fails.
C8_InitAlways200 ==
    \A i \in Slots :
        reqs[i].kind = "init"
            => /\ reqs[i].pc # "hung"
               /\ reqs[i].pc = "done"
                    => reqs[i].status = 200 /\ reqs[i].body = "Initialized"

\* C8 witness: two /init requests have been answered, the Initialize of one
\* committed and the Initialize of the other refused at endorsement
C8_Witness ==
    \E i \in Slots, j \in Slots :
        /\ reqs[i].kind = "init" /\ reqs[i].pc = "done"
        /\ reqs[i].failure = "none" /\ Len(reqs[i].trace) = 3
        /\ reqs[j].kind = "init" /\ reqs[j].pc = "done"
        /\ reqs[j].failure = "ledger" /\ Len(reqs[j].trace) = 1
        /\ reqs[j].status = 200

\* the phases of a submit, in order
Phases == <<"endorse", "order", "commit">>

\* C9 as stated: every /submit its handler has answered has passed through
\* endorse, order and commit, in that order.
C9_AnsweredSubmitReachedCommit ==
    \A i \in Slots :
        (reqs[i].kind = "submit" /\ reqs[i].pc = "done" /\ reqs[i].status # 500)
            => reqs[i].trace = Phases

\* C9 amended: a /submit runs endorse, order and commit in that order and
\* stops at the first phase that fails; it is answered 200 only after the
\* commit phase, and a failed phase is answered 400 at once.
C9_SubmitPhasesInOrder ==
    \A i \in Slots :
        reqs[i].kind = "submit"
            => /\ reqs[i].trace = SubSeq(Phases, 1, Len(reqs[i].trace))
               /\ InFlight(reqs[i]) /\ reqs[i].pc # "build"
                    => reqs[i].pc = reqs[i].trace[Len(reqs[i].trace)]
               /\ reqs[i].status = 200 => reqs[i].trace = Phases
               /\ reqs[i].failure = "ledger"
                    => reqs[i].pc = "done" /\ reqs[i].status = 400

\* C9 witness: one /submit answered 200 after its commit, another answered
\* 400 after its endorsement failed
C9_Witness ==
    \E i \in Slots, j \in Slots :
        /\ reqs[i].kind = "submit" /\ reqs[i].status = 200
        /\ reqs[i].trace = Phases
        /\ reqs[j].kind = "submit" /\ reqs[j].status = 400
        /\ reqs[j].trace = <<"endorse">>

\* C10: a /ping, /evaluate or /submit issues at most one ledger invocation,
\* and a failed invocation is answered 400 with the error text.
C10_OneInvocationNoRetry ==
    \A i \in Slots :
        reqs[i].kind \in Proxied
            => /\ Invocations(reqs[i].trace) <= 1
               /\ reqs[i].failure = "ledger"
                    => /\ reqs[i].pc = "done"
                       /\ reqs[i].status = 400
                       /\ reqs[i].body = "error"
                       /\ Invocations(reqs[i].trace) = 1

\* C10 witness: the invocation of a request has failed and it was answered 400
C10_Witness ==
    \E i \in Slots :
        /\ reqs[i].kind \in Proxied /\ reqs[i].failure = "ledger"
        /\ reqs[i].status = 400 /\ Invocations(reqs[i].trace) = 1

\* the deadline table of a contract is the fixed one, counted from the clock
\* reading at which the operation is started
FixedDeadlines(c) ==
    \A now \in Times :
        /\ c.deadlines.evaluate[now] = now + 5000
        /\ c.deadlines.endorse[now] = now + 15000
        /\ c.deadlines.submit[now] = now + 5000
        /\ c.deadlines.commitStatus[now] = now + 60000

\* C11: the default contract and every contract the resolver builds, for any
\* user, carry the same deadlines: evaluate 5 s, endorse 15 s, submit 5 s,
\* commit status 60 s, each counted from the start of the operation.
C11_SameDeadlinesForAll ==
    /\ mainPc \in {"initialize", "listen"} => FixedDeadlines(DefaultContract)
    /\ \A i \in Slots :
          /\ reqs[i].contract # NoContract => FixedDeadlines(reqs[i].contract)
          /\ reqs[i].via # NoContract => FixedDeadlines(reqs[i].via)
    /\ \A i \in Slots, j \in Slots :
          (reqs[i].via # NoContract /\ reqs[j].via # NoContract)
              => reqs[i].via.deadlines = reqs[j].via.deadlines

\* C11 witness: requests run on the contracts of two different users at the
\* same time, with the deadlines of the default contract
C11_Witness ==
    \E i \in Slots, j \in Slots :
        /\ Executing(reqs[i]) /\ Executing(reqs[j])
        /\ reqs[i].via.signer.user = "alice"
        /\ reqs[j].via.signer.user = "bob"
        /\ FixedDeadlines(reqs[i].via) /\ FixedDeadlines(reqs[j].via)
        /\ reqs[i].via.deadlines = DefaultContract.deadlines

\* slot i holds a /login whose enroll call succeeded and which answers 200 now
LoginStores(i) ==
    /\ reqs[i].kind = "login" /\ reqs[i].pc = "enrolled"
    /\ reqs[i].trace = <<"getOne", "enroll">>
    /\ reqs'[i].pc = "done" /\ reqs'[i].status = 200

\* the step changes users at the key `username` alone, to the value r
OnlyAt(username, r) ==
    /\ DOMAIN users' = DOMAIN users \cup {username}
    /\ users'[username] = r
    /\ \A n \in DOMAIN users \ {username} : users'[n] = users[n]

\* C12: users is empty until the server listens; a step changes it only when
\* a /login whose enroll call succeeded stores the result, and then only at
\* the username of that /login; every other step leaves it unchanged and no
\* entry is ever removed.
C12_DirectoryChangesOnlyAtLogin ==
    /\ [](mainPc # "listen" => DOMAIN users = {})
    /\ [][/\ DOMAIN users \subseteq DOMAIN users'
          /\ users' # users
                => \E i \in Slots :
                      LoginStores(i) /\ OnlyAt(reqs[i].username, reqs[i].result)]_vars

\* C12 witness: users holds alice's entry alone although a /signup has
\* answered 200 and the enroll call of another /login has failed since
C12_Witness ==
    \E i \in Slots, j \in Slots :
        /\ DOMAIN users = {"alice"}
        /\ ca = Users
        /\ reqs[i].kind = "signup" /\ reqs[i].status = 200
        /\ reqs[j].kind = "login" /\ reqs[j].failure = "enroll"

\* the request has awaited the call `call`
Called(r, call) == \E k \in DOMAIN r.trace : r.trace[k] = call

\* C13: a request whose getOne failed for a reason other than not-found is
\* not treated as one whose username is unknown: a /signup does not go on to
\* call register, and a /login is not answered "Username not found".
C13_LookupFailureNotNotFound ==
    \A i \in Slots :
        reqs[i].failure = "getOne"
            => /\ reqs[i].kind = "signup" => ~Called(reqs[i], "register")
               /\ reqs[i].kind = "login" => reqs[i].body # "Username not found"

\* main() has enrolled the registrar, built the default contract and
\* completed the startup Initialize submit, in this order
StartupDone == startup = <<"enroll", "connect", "Initialize">>

\* C14: every step that starts or continues a request is taken after main()
\* has enrolled the registrar, built the default contract and completed the
\* startup Initialize submit, in this order, its outcome being either one;
\* and main() goes from the startup Initialize to listening whatever the
\* outcome of the submit.
C14_NoRequestBeforeStartup ==
    /\ [][reqs' # reqs => StartupDone /\ mainPc = "listen"]_vars
    /\ [][mainPc = "initialize" /\ mainPc' # mainPc => mainPc' = "listen"]_vars
    /\ [](mainPc = "listen" => StartupDone)

\* C14 witness: a request has been answered by a server that listens after
\* the three startup steps
C14_Witness ==
    /\ mainPc = "listen" /\ StartupDone
    /\ \E i \in Slots : reqs[i].kind = "ping" /\ reqs[i].status = 200

\* the enroll result is complete: certificate and key of one enrollment of
\* `user` that the CA has issued
Complete(user, r) == \E n \in 1..serial : r = EnrollResult(user, n)

\* the session resolved for x-user `user` is built from the enroll result r
UsesResult(user, r) ==
    SessionFor(user) = Connect(NewConnectOptions(r.certificate, r.key), FALSE)

\* C15: when a /login stores, users holds at its username the result of this
\* request's own enroll call, whatever another /login of the same username
\* stored before and whichever of them arrived first: the result of the
\* enroll call that returned last stays.  At any time the entry of a username
\* is one complete enroll result, and a session resolved for the username is
\* built from that entry.
C15_LastEnrollResultStays ==
    /\ [][\A i \in Slots :
            LoginStores(i)
               => /\ users'[reqs[i].username] = reqs[i].result
                  /\ UsesResult(reqs[i].username, reqs[i].result)']_vars
    /\ [](\A u \in DOMAIN users :
            Complete(u, users[u]) /\ UsesResult(u, users[u]))

\* C15 witness: two /login requests of alice have answered 200.  The one in
\* slot j arrived while another was in flight and the one in slot i did not,
\* and the CA served i before j: i arrived first and the two overlapped.  Yet
\* users and the session of alice hold the result of i, which stored last.
C15_Witness ==
    \E i \in Slots, j \in Slots :
        /\ reqs[i].kind = "login" /\ reqs[i].status = 200
        /\ reqs[j].kind = "login" /\ reqs[j].status = 200
        /\ ~reqs[i].later /\ reqs[j].later
        /\ reqs[i].issued = 1 /\ reqs[j].issued = 2
        /\ DOMAIN users = {"alice"}
        /\ users["alice"] = EnrollResult("alice", reqs[i].issued)
        /\ SessionFor("alice").signer = Material("alice", 1)

\* the /signup in slot i is answered 200 "OK" by this step
SignupAnswersOK(i) ==
    /\ reqs[i].kind = "signup" /\ InFlight(reqs[i])
    /\ reqs'[i].status = 200 /\ reqs'[i].body = "OK"

\* C16: a /signup is answered 200 "OK" only by the step in which the CA
\* registers its username, which the CA did not know until then, and the CA
\* never forgets an id; so of the /signup requests of one username, overlapping
\* or not, at most one is answered 200 "OK".  A /signup that is past the
\* lookup when another one registers the same username is not stopped by the
\* handler: it is in flight at the register call.
C16_OneSignupAnswered200 ==
    /\ [][ca \subseteq ca']_vars
    /\ [][\A i \in Slots :
            SignupAnswersOK(i)
               => /\ reqs[i].pc = "register"
                  /\ reqs[i].username \notin ca
                  /\ ca' = ca \cup {reqs[i].username}]_vars

\* C16 witness: two /signup requests of alice both passed the lookup while the
\* CA did not know alice; one has registered her and answered 200 "OK", the
\* other is at its register call
C16_Witness ==
    \E i \in Slots, j \in Slots :
        /\ reqs[i].kind = "signup" /\ reqs[i].status = 200
        /\ reqs[i].registered = "no" /\ reqs[i].failure = "none"
        /\ reqs[j].kind = "signup" /\ reqs[j].pc = "register"
        /\ reqs[j].username = "alice"
        /\ reqs[j].registered = "no" /\ reqs[j].failure = "none"
        /\ ca = {"alice"}

\* the endpoints registered before the session resolver
Direct == {"init", "signup", "login"}

\* what one step of a request leaves: the request, the CA, users, the process
Outcome(r, a, c, n, us, ok) ==
    [req |-> r, alive |-> a, ca |-> c, serial |-> n, users |-> us, loginOK |-> ok]

\* the step leaves everything but the request as it is
Only(r) == Outcome(r, alive, ca, serial, users, loginOK)

\* the outcomes of an await that rejects outside any try
UnhandledResults(r) ==
    {Outcome(Ended(r, "hung"), a, ca, serial, users, loginOK) : a \in BOOLEAN}
        \cup {Only(Respond(r, 500, "Internal Server Error"))}

\* the request after getOne has settled with `outcome`
Looked(r, outcome) ==
    [r EXCEPT !.registered = IF r.username \in ca THEN "yes" ELSE "no",
              !.failure = IF outcome = "error" THEN "getOne" ELSE @]

\* every outcome of the next step of the /init, /signup or /login request r,
\* read off the handlers: the calls they await and what they do on each return
DirectResults(r) ==
    IF r.kind = "signup" /\ r.pc = "getOne"
        THEN {Only(SignupAfterLookup(Looked(r, o), o)) : o \in LookupOutcomes(r.username)}
    ELSE IF r.kind = "signup" /\ r.pc = "register"
        THEN UNION {IF o = "ok"
                       THEN {Outcome(Respond(r, 200, "OK"), alive,
                                     ca \cup {r.username}, serial, users, loginOK)}
                       ELSE UnhandledResults([r EXCEPT !.failure = "register"])
                    : o \in RegisterOutcomes(r.username)}
    ELSE IF r.kind = "login" /\ r.pc = "getOne"
        THEN {Only(LoginAfterLookup(Looked(r, o), o)) : o \in LookupOutcomes(r.username)}
    ELSE IF r.kind = "login" /\ r.pc = "enroll"
        THEN UNION {IF o = "ok"
                       THEN {Outcome([r EXCEPT !.pc = "enrolled",
                                        !.result = EnrollResult(r.username, serial + 1),
                                        !.issued = serial + 1],
                                     alive, ca, serial + 1, users, loginOK)}
                       ELSE UnhandledResults([r EXCEPT !.failure = "enroll"])
                    : o \in EnrollOutcomes(r.username)}
    ELSE IF r.kind = "login" /\ r.pc = "enrolled"
        THEN {Outcome(Respond(r, 200, "OK"), alive, ca, serial,
                      UsersSet(LoginKey(r), r.result), loginOK \cup {r.username})}
    ELSE IF r.kind = "init" /\ r.pc \in {"endorse", "order"}
        THEN {Only(IF ok THEN Await(r, NextPhase(r.pc)) ELSE Finish(r, FALSE))
                 : ok \in PhaseOutcomes}
    ELSE IF r.kind = "init" /\ r.pc = "commit"
        THEN {Only(Finish(r, ok)) : ok \in PhaseOutcomes}
    ELSE {}

\* the outcome with the x-user header of its request left out
Erase(x) == [x EXCEPT !.req.xuser = NoHeader]

\* what the step taken leaves of the request in slot i and of the rest
Stepped(i) == Outcome(reqs'[i], alive', ca', serial', users', loginOK')

\* the handler of the request in slot i takes a step
DirectStep(i) ==
    /\ reqs[i].kind \in Direct /\ InFlight(reqs[i])
    /\ reqs'[i].pc # reqs[i].pc

\* a request for /init, /signup or /login arrives in slot i
DirectArrival(i) ==
    /\ Free(i) /\ reqs'[i].kind \in Direct /\ InFlight(reqs'[i])

\* the request as its handler starts it, whatever its x-user header h
Started(r, h) ==
    IF r.kind = "init" THEN InitStart(h)
    ELSE IF r.kind = "signup" THEN SignupStart(r.username, h)
    ELSE [LoginStart(r.username, h) EXCEPT !.overlap = r.overlap, !.later = r.later]

\* C17: a /init, /signup or /login request does the same whatever its x-user
\* header.  It starts as the request with any other header h starts, the
\* header aside; each step of its handler leaves the request, the header
\* aside, the CA, users and the process as a step of the same request with
\* header h can leave them; the resolver never attaches a contract to it, and
\* /init submits on the default contract while /signup and /login use none.
C17_HeaderHasNoEffect ==
    /\ [][\A i \in Slots, h \in Headers :
            /\ DirectArrival(i)
                  => [reqs'[i] EXCEPT !.xuser = NoHeader]
                        = [Started(reqs'[i], h) EXCEPT !.xuser = NoHeader]
            /\ DirectStep(i)
                  => Erase(Stepped(i))
                        \in {Erase(x) : x \in DirectResults([reqs[i] EXCEPT !.xuser = h])}
         ]_vars
    /\ [](\A i \in Slots :
            reqs[i].kind \in Direct /\ InFlight(reqs[i])
               => /\ reqs[i].contract = NoContract
                  /\ reqs[i].via = IF reqs[i].kind = "init" THEN DefaultContract
                                                           ELSE NoContract)

\* C17 witness: alice has logged in; a /init with x-user alice has passed
\* its endorse and order phases on the default contract, and a /login of
\* bob with x-user alice has been issued a certificate
C17_Witness ==
    \E i \in Slots, j \in Slots :
        /\ HasOwn("alice")
        /\ reqs[i].kind = "init" /\ reqs[i].xuser = "alice"
        /\ reqs[i].pc = "commit" /\ reqs[i].via = DefaultContract
        /\ reqs[j].kind = "login" /\ reqs[j].xuser = "alice"
        /\ reqs[j].username = "bob" /\ reqs[j].pc = "enrolled"

====
